---- MODULE Spec2Model ----
(***************************************************************************)
(* A model of the species-explanation application of                       *)
(* src/backend/fetch_unesco.py: the GBIF and iNaturalist adapters behind   *)
(* their TTL cache, merge_animal_data, the Director version's              *)
(* process_animal_query and main, and the generation call; and, taken      *)
(* alone, the adapters, the generators and the query handling of the       *)
(* application's earlier and Curator versions; and the heritage            *)
(* application: get_unesco_ich_data, generate_global_ich_explanation and   *)
(* the page runs of its final version.                                     *)
(***************************************************************************)
EXTENDS Integers, Sequences, FiniteSets, TLC

VARIABLES
    session_state,  \* st.session_state of the Director app: a dict
    gbif_cache,     \* st.cache_data store of fetch_gbif_data: key -> entry
    inat_cache,     \* st.cache_data store of fetch_inaturalist_data
    now,            \* the clock the cache's TTL is measured against
    ticks,          \* how often the clock has advanced
    runs,           \* page runs (executions of main) so far
    run,            \* what the last page run did and displayed
    mg_gbif,        \* merge_animal_data taken alone: its gbif_data argument
    mg_inat,        \* its inat_data argument
    mg_out,         \* its result
    fn_call,        \* a function taken alone: its name and arguments
    fn_result,      \* what that call returned and did
    ich_session,    \* st.session_state of the heritage app
    ich_run         \* what the last page run of the heritage app did

vars == <<session_state, gbif_cache, inat_cache, now, ticks, runs, run,
          mg_gbif, mg_inat, mg_out, fn_call, fn_result, ich_session, ich_run>>

appVars == <<session_state, gbif_cache, inat_cache, now, ticks, runs, run>>

mergeVars == <<mg_gbif, mg_inat, mg_out>>

callVars == <<fn_call, fn_result>>

heritageVars == <<ich_session, ich_run>>

----------------------------------------------------------------------------
(* Bounds of the model.                                                    *)

\* page runs explored from the start of a session
MaxRuns == 3

\* advances of the clock explored
MaxTicks == 1

\* keys of a provider payload that deviate from the complete payload
MaxAltered == 1

----------------------------------------------------------------------------
(* Python values.  A value carries its type in t; records of different     *)
(* types have different fields, so any two values can be compared.         *)

None == [t |-> "none"]

\* a string whose characters play no part: "" is the empty string
Str(s) == [t |-> "str", s |-> s]

List(l) == [t |-> "list", l |-> l]

Num(n) == [t |-> "int", n |-> n]

\* a string kept as the sequence of its characters
Chars(cs) == [t |-> "str", cs |-> cs]

\* a dict: d is a function from its keys to values
Dict(d) == [t |-> "dict", d |-> d]

EmptyDict == [k \in {} |-> None]

\* an exception that leaves the function: not a value it returns
Raise(e) == [t |-> "raise", exc |-> e]

\* Python truth value of a value (what `not x`, `x or y`, `if x` test)
Truthy(v) ==
    CASE v.t = "none" -> FALSE
      [] v.t = "str"  -> IF "s" \in DOMAIN v THEN v.s # "" ELSE v.cs # <<>>
      [] v.t = "list" -> v.l # <<>>
      [] v.t = "int"  -> v.n # 0
      [] v.t = "dict" -> DOMAIN v.d # {}
      [] OTHER        -> TRUE

\* dict.get(key, default) on a dict value
DGet(v, key, default) == IF key \in DOMAIN v.d THEN v.d[key] ELSE default

IsNull(v) == v.t = "none"

----------------------------------------------------------------------------
(* Strings the program trims, lower-cases or compares character by         *)
(* character are sequences of characters.                                  *)

UpperCase == <<"A", "B", "C", "D", "E", "F", "G", "H", "I", "J", "K", "L", "M",
               "N", "O", "P", "Q", "R", "S", "T", "U", "V", "W", "X", "Y", "Z">>

LowerCase == <<"a", "b", "c", "d", "e", "f", "g", "h", "i", "j", "k", "l", "m",
               "n", "o", "p", "q", "r", "s", "t", "u", "v", "w", "x", "y", "z">>

Whitespace == {" ", "\n", "\t"}

LowerChar(c) ==
    IF \E i \in DOMAIN UpperCase : UpperCase[i] = c
    THEN LowerCase[CHOOSE i \in DOMAIN UpperCase : UpperCase[i] = c]
    ELSE c

\* str.lower()
lower(s) == [i \in DOMAIN s |-> LowerChar(s[i])]

RECURSIVE lstrip(_)
lstrip(s) == IF s # <<>> /\ Head(s) \in Whitespace THEN lstrip(Tail(s)) ELSE s

RECURSIVE rstrip(_)
rstrip(s) ==
    IF s # <<>> /\ s[Len(s)] \in Whitespace
    THEN rstrip(SubSeq(s, 1, Len(s) - 1))
    ELSE s

\* str.strip()
strip(s) == rstrip(lstrip(s))

----------------------------------------------------------------------------
(* Configuration of the Director version.                                  *)

CACHE_TTL == 3600

MAX_PHOTOS == 3

\* the keys of DIRECTOR_PROMPT_TEMPLATES, which the role selectbox offers
DIRECTOR_PROMPT_TEMPLATES == {"general", "kids", "biologist", "tourist_guide"}

\* a ROLE_DESCRIPTIONS that has no entry for one of the roles
ROLE_DESCRIPTIONS_without_guide == {"general", "kids", "biologist"}

ROLE_DESCRIPTIONS == {"general", "kids", "biologist", "tourist_guide"}

\* the keys of GIANT_PANDA_DEFAULT_DATA["default_explanation"]
default_explanation_keys == {"general", "kids", "biologist", "tourist_guide"}

\* GIANT_PANDA_DEFAULT_DATA["default_explanation"][role]: the text between
\* the triple quotes opens with a newline and closes with a newline and the
\* indentation of the closing quotes
default_explanation(role) ==
    <<"\n", "explanation for", role, "\n", " ", " ", " ", " ", " ", " ", " ", " ">>

GIANT_PANDA_DEFAULT_DATA ==
    Dict([common_name |-> Str("Giant Panda"),
          chinese_name |-> Str("u5927u718Au732B"),
          english_name |-> Str("Giant Panda"),
          scientific_name |-> Str("Ailuropoda melanoleuca"),
          classification |->
              Dict([Kingdom |-> Str("Animalia"), Phylum |-> Str("Chordata"),
                    Class |-> Str("Mammalia"), Order |-> Str("Carnivora"),
                    Family |-> Str("Ursidae"), Genus |-> Str("Ailuropoda")]),
          distribution |-> List(<<Str("China")>>),
          conservation_status |-> Str("Vulnerable (VU)"),
          habitat |-> Str("Temperate broadleaf and mixed forests"),
          behavior |-> Str("Primarily herbivorous"),
          photos |-> List(<<Str("Grosser_Panda.JPG"), Str("Panda.jpg"),
                            Str("Giant_Panda.jpg")>>),
          observations_count |-> Num(158000),
          default_explanation |->
              Dict([role \in default_explanation_keys |->
                        Chars(default_explanation(role))])])

----------------------------------------------------------------------------
(* merge_animal_data of the Director version.                              *)

\* the "common_name" entry: the first truthy of GBIF's vernacularName,
\* iNaturalist's common_name and the placeholder
common_name_inat_first(gbif_data, inat_data) ==
    LET v == DGet(gbif_data, "vernacularName", None)
        c == DGet(inat_data, "common_name", None)
    IN  IF Truthy(c) THEN c
        ELSE IF Truthy(v) THEN v
        ELSE Str("Unknown common name")

merge_common_name(gbif_data, inat_data) ==
    LET v == DGet(gbif_data, "vernacularName", None)
        c == DGet(inat_data, "common_name", None)
    IN  IF Truthy(v) THEN v
        ELSE IF Truthy(c) THEN c
        ELSE Str("Unknown common name")

\* the NotFound guard `if not gbif_data`
merge_guard_inverted(gbif_data, inat_data) == Truthy(gbif_data)

merge_guard(gbif_data, inat_data) == ~Truthy(gbif_data)

\* the distribution list: the countries of GBIF's distribution, or a
\* one-element list holding a note when there are none
merge_countries(gbif_data) ==
    LET distribution == DGet(gbif_data, "distribution", Dict(EmptyDict))
    IN  IF distribution.t # "dict" THEN Raise("AttributeError")
        ELSE LET countries == DGet(distribution, "countries", List(<<>>))
             IN  IF ~Truthy(countries)
                 THEN List(<<Str(IF ~Truthy(distribution)
                                 THEN "Global distribution"
                                 ELSE "No clear distribution records")>>)
                 ELSE countries

merge_animal_data(gbif_data, inat_data) ==
    IF merge_guard(gbif_data, inat_data) THEN None
    ELSE IF gbif_data.t # "dict" THEN Raise("AttributeError")
    ELSE LET countries == merge_countries(gbif_data)
         IN  IF countries.t = "raise" THEN countries
             \* inat_data.get(...) on None: every record reads inat_data
             ELSE IF inat_data.t # "dict" THEN Raise("AttributeError")
             ELSE Dict(
               [common_name |-> merge_common_name(gbif_data, inat_data),
                chinese_name |->
                    LET v == DGet(gbif_data, "vernacularName", None)
                    IN  IF Truthy(v) THEN v ELSE Str("Unknown Chinese name"),
                english_name |->
                    DGet(gbif_data, "englishName", Str("Unknown English name")),
                scientific_name |->
                    DGet(gbif_data, "scientificName", Str("Unknown scientific name")),
                classification |->
                    Dict([Kingdom |-> DGet(gbif_data, "kingdom", Str("Unknown")),
                          Phylum |-> DGet(gbif_data, "phylum", Str("Unknown")),
                          Class |-> DGet(gbif_data, "class", Str("Unknown")),
                          Order |-> DGet(gbif_data, "order", Str("Unknown")),
                          Family |-> DGet(gbif_data, "family", Str("Unknown")),
                          Genus |-> DGet(gbif_data, "genus", Str("Unknown"))]),
                distribution |-> countries,
                conservation_status |->
                    DGet(gbif_data, "status", Str("Unknown conservation status")),
                habitat |->
                    DGet(inat_data, "habitat", Str("No detailed records available")),
                behavior |->
                    DGet(inat_data, "behavior", Str("No detailed records available")),
                photos |-> DGet(inat_data, "photos", List(<<>>)),
                observations_count |-> DGet(inat_data, "observations_count", Num(0))])

----------------------------------------------------------------------------
(* Provider payloads.                                                      *)

Min(a, b) == IF a <= b THEN a ELSE b

\* l[:n]
Take(l, n) == SubSeq(l, 1, Min(n, Len(l)))

\* the record fetch_inaturalist_data builds from the first result
inat_extract(result) ==
    LET photos == DGet(result, "photos", List(<<>>))
    IN  IF photos.t # "list" THEN Raise("TypeError")
        ELSE IF \E i \in DOMAIN Take(photos.l, MAX_PHOTOS) :
                    "url" \notin DOMAIN photos.l[i].d
        THEN Raise("KeyError")
        ELSE Dict(
          [common_name |-> DGet(result, "preferred_common_name", None),
           habitat |->
               DGet(result, "habitat", Str("No detailed records available")),
           behavior |->
               DGet(result, "behavior", Str("No detailed records available")),
           photos |->
               List([i \in DOMAIN Take(photos.l, MAX_PHOTOS) |-> photos.l[i].d["url"]]),
           observations_count |-> DGet(result, "observations_count", Num(0))])

\* a complete first result of the GBIF species search
GbifFull ==
    [vernacularName |-> Str("Lion"),
     englishName |-> Str("African Lion"),
     scientificName |-> Str("Panthera leo"),
     kingdom |-> Str("Animalia"),
     phylum |-> Str("Chordata"),
     class |-> Str("Mammalia"),
     order |-> Str("Carnivora"),
     family |-> Str("Felidae"),
     genus |-> Str("Panthera"),
     distribution |-> Dict([countries |-> List(<<Str("Kenya"), Str("India")>>)]),
     status |-> Str("Vulnerable")]

Photo(u) == Dict([url |-> Str(u)])

\* a complete first result of the iNaturalist taxa search
InatFull ==
    [preferred_common_name |-> Str("Leo"),
     habitat |-> Str("Savanna"),
     behavior |-> Str("Lives in prides"),
     photos |-> List(<<Photo("p1"), Photo("p2")>>),
     observations_count |-> Num(12)]

\* the key is left out of the payload
Missing == [t |-> "missing"]

\* what a key of a payload may hold instead of its complete value
AltVals(k) ==
    CASE k = "scientificName" ->
            {Missing, None, Str(""), Str("Ailuropoda melanoleuca")}
      [] k = "distribution" ->
            {Missing, None, Dict(EmptyDict), Dict([countries |-> List(<<>>)])}
      [] k = "preferred_common_name" ->
            {Missing, None, Str(""), Str("Lion")}
      [] k = "photos" ->
            {Missing, None, List(<<>>), List(<<Photo("p1"), Dict([id |-> Num(7)])>>),
             List(<<Photo("p1"), Photo("p2"), Photo("p3"), Photo("p4")>>)}
      [] k \in {"habitat", "behavior", "observations_count"} ->
            {Missing, None}
      [] OTHER -> {Missing, None, Str("")}

AllAltVals == UNION {AltVals(k) : k \in (DOMAIN GbifFull) \cup (DOMAIN InatFull)}

\* base with the keys of f left out or set to what f gives
Alter(base, f) ==
    [k \in {j \in DOMAIN base : j \notin DOMAIN f \/ f[j] # Missing} |->
        IF k \in DOMAIN f THEN f[k] ELSE base[k]]

\* the payloads that differ from base in at most n keys
Altered(base, n) ==
    UNION { { Alter(base, f) :
                f \in {g \in [S -> AllAltVals] : \A k \in S : g[k] \in AltVals(k)} } :
            S \in {T \in SUBSET DOMAIN base : Cardinality(T) <= n} }

\* what fetch_gbif_data can return: None, or the first result
GbifReturns == {None, Dict(EmptyDict)} \cup {Dict(r) : r \in Altered(GbifFull, MaxAltered)}

\* what fetch_inaturalist_data can return: None, or the record it builds
InatReturns ==
    {None} \cup
    {v \in {inat_extract(Dict(r)) : r \in Altered(InatFull, MaxAltered)} : v.t = "dict"}

----------------------------------------------------------------------------
(* The adapters of the Director version behind st.cache_data.              *)

\* a call that was not made
NoCall ==
    [called |-> FALSE, hit |-> FALSE, req |-> None, ret |-> None,
     failed |-> FALSE, warning |-> ""]

\* what requests.get and raise_for_status can end in
NetFailures == {"timeout", "transport", "http"}

Net(kind, data) == [kind |-> kind, data |-> data]

\* the body of fetch_gbif_data: the request it sends and what it returns
fetch_gbif_data(species_name, region, net) ==
    LET params0 == [name |-> strip(species_name), rank |-> "SPECIES",
                    limit |-> 1, offset |-> 0]
        params == IF region # ""
                  THEN [k \in DOMAIN params0 \cup {"country"} |->
                            IF k = "country" THEN region ELSE params0[k]]
                  ELSE params0
        results == DGet(net.data, "results", None)
    IN  [called |-> TRUE, hit |-> FALSE,
         req |-> Dict([api |-> "gbif", params |-> params, timeout |-> 15]),
         ret |-> IF net.kind = "ok" /\ Truthy(results) THEN results.l[1] ELSE None,
         failed |-> net.kind \in NetFailures,
         warning |-> CASE net.kind = "timeout" -> "GBIF API request timed out"
                       [] net.kind \in {"transport", "http"} -> "Failed to fetch GBIF data"
                       [] OTHER -> ""]

\* the body of fetch_inaturalist_data
fetch_inaturalist_data(species_name, net) ==
    LET params == [q |-> strip(species_name), rank |-> "species", per_page |-> 1,
                   photos |-> TRUE, lang |-> "en"]
        results == DGet(net.data, "results", None)
    IN  [called |-> TRUE, hit |-> FALSE,
         req |-> Dict([api |-> "inaturalist", params |-> params, timeout |-> 15]),
         ret |-> IF net.kind = "ok" /\ Truthy(results)
                 THEN inat_extract(results.l[1])
                 ELSE None,
         failed |-> net.kind \in NetFailures,
         warning |-> CASE net.kind = "timeout" -> "iNaturalist API request timed out"
                       [] net.kind \in {"transport", "http"} -> "Failed to fetch iNaturalist data"
                       [] OTHER -> ""]

\* an entry of st.cache_data(ttl=CACHE_TTL) can still be served
cache_never_fresh(cache, key) == FALSE

cache_fresh(cache, key) == key \in DOMAIN cache /\ now < cache[key].at + CACHE_TTL

\* st.cache_data stores whatever the function returns
cache_storable(call) == call.ret.t # "raise"

\* a call of a function under st.cache_data: a fresh entry answers without
\* running the body; otherwise the body runs and its return value is stored
\* (an exception leaves the call and stores nothing)
cached_call(cache, key, body) ==
    IF cache_fresh(cache, key)
    THEN [call |-> [called |-> TRUE, hit |-> TRUE, req |-> None,
                    ret |-> cache[key].value, failed |-> cache[key].failed,
                    warning |-> cache[key].warning],
          cache |-> cache]
    ELSE [call |-> body,
          cache |-> IF cache_storable(body)
                    THEN [k \in DOMAIN cache \cup {key} |->
                            IF k = key
                            THEN [value |-> body.ret, at |-> now,
                                  failed |-> body.failed, warning |-> body.warning]
                            ELSE cache[k]]
                    ELSE cache]

----------------------------------------------------------------------------
(* The generation call of the Director version.                            *)

NoGen ==
    [entered |-> FALSE, called |-> FALSE, temperature |-> 0, max_tokens |-> 0,
     ret |-> None, error |-> ""]

\* what client.chat.completions.create can end in: a completion, a blank
\* completion, or one of the errors of the client library
GenOutcomes == {"ok", "blank", "auth", "rate", "api", "timeout", "other"}

\* generate_director_explanation; temperature is in tenths
generate_director_explanation(animal_data, api_key, selected_role, gen_net) ==
    IF DGet(animal_data, "scientific_name", None) = Str("Ailuropoda melanoleuca")
       /\ api_key = ""
    THEN [entered |-> TRUE, called |-> FALSE, temperature |-> 0, max_tokens |-> 0,
          ret |-> Chars(strip(default_explanation(selected_role))), error |-> ""]
    ELSE [entered |-> TRUE, called |-> TRUE,
          temperature |-> IF selected_role # "biologist" THEN 7 ELSE 3,
          max_tokens |-> 800,
          ret |-> CASE gen_net = "ok" ->
                         Chars(strip(<<" ", "generated for", selected_role, "\n">>))
                    [] gen_net = "blank" -> Chars(strip(<<" ", "\n">>))
                    [] OTHER -> None,
          error |-> CASE gen_net = "auth" -> "Invalid or unauthorized API Key"
                      [] gen_net = "rate" -> "API rate limit exceeded"
                      [] gen_net \in {"api", "timeout"} -> "AI generation failed"
                      [] gen_net = "other" -> "Unknown error"
                      [] OTHER -> ""]

----------------------------------------------------------------------------
(* process_animal_query of the Director version.                           *)

\* the names the pre-authored Giant Panda data is used for
PandaNames ==
    {<<"g", "i", "a", "n", "t", " ", "p", "a", "n", "d", "a">>,
     <<"u5927", "u718A", "u732B">>,
     <<"a", "i", "l", "u", "r", "o", "p", "o", "d", "a", " ", "m", "e", "l", "a", "n", "o", "l", "e", "u", "c", "a">>}

is_panda_query_exact(species_name) == species_name \in PandaNames

is_panda_query(species_name) == lower(species_name) \in PandaNames

\* the test that selects the pre-authored explanation
takes_canned_always(species_name, animal_data) == TRUE

takes_canned(species_name, animal_data) ==
    DGet(animal_data, "scientific_name", None) = Str("Ailuropoda melanoleuca")

\* the display code reads these entries: len() and [:100] of habitat,
\* ', '.join of distribution, the {:,} format of observations_count
display_raises(animal_data) ==
    \/ animal_data.d["habitat"].t # "str"
    \/ animal_data.d["distribution"].t # "list"
    \/ \E i \in DOMAIN animal_data.d["distribution"].l :
            animal_data.d["distribution"].l[i].t # "str"
    \/ animal_data.d["observations_count"].t # "int"
    \/ animal_data.d["photos"].t # "list"

\* a value the run did not read
NotRead == "(not read)"

\* the outcome of process_animal_query, from the merged record on
explain_and_display(species_name, animal_data, api_key, selected_role, gen_net) ==
    LET out(outcome, canned, gen, explanation, used) ==
            [animal_data |-> animal_data, canned |-> canned, gen |-> gen,
             explanation |-> explanation, outcome |-> outcome,
             api_key |-> IF used THEN api_key ELSE NotRead,
             role |-> IF used THEN selected_role ELSE NotRead]
    IN  IF animal_data.t = "raise" THEN out("fault", FALSE, NoGen, None, FALSE)
        ELSE IF ~Truthy(animal_data) THEN out("no_data", FALSE, NoGen, None, FALSE)
        ELSE IF takes_canned(species_name, animal_data)
        THEN IF "default_explanation" \notin DOMAIN animal_data.d
             THEN out("fault", TRUE, NoGen, None, TRUE)
             ELSE LET explanation ==
                        Chars(strip(animal_data.d["default_explanation"].d[selected_role].cs))
                  IN  IF display_raises(animal_data)
                      THEN out("fault", TRUE, NoGen, explanation, TRUE)
                      ELSE out("displayed", TRUE, NoGen, explanation, TRUE)
        ELSE IF api_key = "" THEN out("key_required", FALSE, NoGen, None, TRUE)
        ELSE LET gen == generate_director_explanation(animal_data, api_key,
                                                      selected_role, gen_net)
             IN  IF ~Truthy(gen.ret) THEN out("gen_failed", FALSE, gen, gen.ret, TRUE)
                 ELSE IF display_raises(animal_data)
                 THEN out("fault", FALSE, gen, gen.ret, TRUE)
                 ELSE out("displayed", FALSE, gen, gen.ret, TRUE)

\* process_animal_query: the record of the run and the caches after it
process_animal_query(species_name, region, api_key, selected_role, gbif_net, inat_net, gen_net) ==
    LET panda == is_panda_query(species_name)
        g == IF panda THEN [call |-> NoCall, cache |-> gbif_cache]
             ELSE cached_call(gbif_cache, <<species_name, region>>,
                              fetch_gbif_data(species_name, region, gbif_net))
        i == IF panda THEN [call |-> NoCall, cache |-> inat_cache]
             ELSE cached_call(inat_cache, <<species_name>>,
                              fetch_inaturalist_data(species_name, inat_net))
        animal_data ==
             IF panda THEN GIANT_PANDA_DEFAULT_DATA
             ELSE IF i.call.ret.t = "raise" THEN i.call.ret
             ELSE merge_animal_data(g.call.ret, i.call.ret)
        rest == explain_and_display(species_name, animal_data, api_key,
                                    selected_role, gen_net)
    IN  [gbif_cache |-> g.cache, inat_cache |-> i.cache,
         run |-> [k \in DOMAIN rest \cup {"species_name", "region", "gbif", "inat"} |->
                    CASE k = "species_name" -> species_name
                      [] k = "region" -> IF panda THEN NotRead ELSE region
                      [] k = "gbif" -> g.call
                      [] k = "inat" -> i.call
                      [] OTHER -> rest[k]]]

----------------------------------------------------------------------------
(* main of the Director version: one action per page run.                  *)

example_species ==
    <<<<"A", "f", "r", "i", "c", "a", "n", " ", "E", "l", "e", "p", "h", "a", "n", "t">>,
      <<"S", "i", "b", "e", "r", "i", "a", "n", " ", "T", "i", "g", "e", "r">>,
      <<"B", "l", "u", "e", " ", "W", "h", "a", "l", "e">>,
      <<"G", "i", "r", "a", "f", "f", "e">>,
      <<"P", "o", "l", "a", "r", " ", "B", "e", "a", "r">>>>

\* example buttons the model presses
MaxExamples == 1

ExampleChoices == {example_species[i] : i \in 1..Min(MaxExamples, Len(example_species))}

\* what the user may have typed into the name box
SearchNames ==
    {<<>>, <<" ">>,
     <<"G", "i", "a", "n", "t", " ", "P", "a", "n", "d", "a">>,
     <<"G", "I", "A", "N", "T", " ", "P", "A", "N", "D", "A">>,
     <<"u5927", "u718A", "u732B">>,
     <<"A", "i", "l", "u", "r", "o", "p", "o", "d", "a", " ", "m", "e", "l", "a", "n", "o", "l", "e", "u", "c", "a">>,
     <<"L", "i", "o", "n">>,
     <<"l", "i", "o", "n", " ">>}

\* the region selectbox (two of the codes of region_map)
Regions == {"", "CN"}

ApiKeys == {"", "sk-test"}

\* the answers of the GBIF endpoint
GbifNets ==
    {Net(k, None) : k \in NetFailures} \cup
    {Net("ok", Dict([results |-> List(<<>>)])),
     Net("ok", Dict([results |-> List(<<Dict(GbifFull)>>)])),
     Net("ok", Dict([results |->
        List(<<Dict([GbifFull EXCEPT !.scientificName = Str("Ailuropoda melanoleuca")])>>)]))}

\* the answers of the iNaturalist endpoint
InatNets ==
    {Net(k, None) : k \in NetFailures} \cup
    {Net("ok", Dict([results |-> List(<<>>)])),
     Net("ok", Dict([results |-> List(<<Dict(InatFull)>>)]))}

\* the answers a call of fetch_gbif_data can meet: none varies when the
\* call is not made or the cache answers it
GbifAnswers(species_name, region) ==
    IF is_panda_query(species_name) \/ cache_fresh(gbif_cache, <<species_name, region>>)
    THEN {CHOOSE n \in GbifNets : TRUE}
    ELSE GbifNets

InatAnswers(species_name) ==
    IF is_panda_query(species_name) \/ cache_fresh(inat_cache, <<species_name>>)
    THEN {CHOOSE n \in InatNets : TRUE}
    ELSE InatNets

\* every way process_animal_query can go for a query in the current state,
\* over the credential, the role and the providers' answers; an input the
\* call does not read is not varied
ProcessOutcomes(species_name, region) ==
    UNION {
      LET probe == process_animal_query(species_name, region, "", "general",
                                        g, i, "ok").run
      IN  UNION {
            { process_animal_query(species_name, region, api_key, selected_role,
                                   g, i, gen_net) :
                gen_net \in
                    IF process_animal_query(species_name, region, api_key,
                                            selected_role, g, i, "ok").run.gen.called
                    THEN GenOutcomes ELSE {"ok"} } :
            api_key \in IF probe.api_key = NotRead THEN {""} ELSE ApiKeys,
            selected_role \in IF probe.role = NotRead THEN {"general"}
                              ELSE DIRECTOR_PROMPT_TEMPLATES } :
      g \in GbifAnswers(species_name, region), i \in InatAnswers(species_name) }

\* a run that processed no query
NoQuery(branch, search_btn, search_name, role) ==
    [branch |-> branch, search_btn |-> search_btn, search_name |-> search_name,
     species_name |-> None, region |-> NotRead, gbif |-> NoCall, inat |-> NoCall,
     animal_data |-> None, canned |-> FALSE, gen |-> NoGen, explanation |-> None,
     outcome |-> branch, api_key |-> NotRead, role |-> role]

\* a run that called process_animal_query
Query(branch, search_btn, search_name, r) ==
    [k \in DOMAIN r \cup {"branch", "search_btn", "search_name"} |->
        CASE k = "branch" -> branch
          [] k = "search_btn" -> search_btn
          [] k = "search_name" -> search_name
          [] OTHER -> r[k]]

\* generate_global_ich_explanation was not called
NoGlobal ==
    [called |-> FALSE, prompt |-> None, temperature |-> 0, ret |-> None, shown |-> ""]

\* a page run of the heritage app: the button pressed, the client, what
\* get_unesco_ich_data and generate_global_ich_explanation did, and the
\* provider's answer to the generation call
IchRun(action, client, fetch, gen, gen_net) ==
    [action |-> action, client |-> client, fetch |-> fetch, gen |-> gen,
     gen_net |-> gen_net]

\* the heritage app before its first page run
HeritageIdle ==
    /\ ich_session = EmptyDict
    /\ ich_run = IchRun("start", None, None, NoGlobal, "")

Init ==
    /\ HeritageIdle
    /\ session_state = EmptyDict
    /\ gbif_cache = EmptyDict
    /\ inat_cache = EmptyDict
    /\ now = 0
    /\ ticks = 0
    /\ runs = 0
    /\ run = NoQuery("start", FALSE, <<>>, NotRead)
    /\ mg_gbif = None
    /\ mg_inat = None
    /\ mg_out = None
    /\ fn_call = None
    /\ fn_result = None

\* the buttons of a page can be pressed once a run has drawn them
Drawn == run.branch # "start"

\* a main whose elif for the stored example comes before the one for the
\* search
main_branch_example_first(search_btn, search_name, state) ==
    IF ~search_btn /\ search_name = <<>> /\ "selected_example" \notin DOMAIN state
    THEN "featured"
    ELSE IF "selected_example" \in DOMAIN state THEN "example"
    ELSE IF search_btn /\ search_name # <<>> THEN "search"
    ELSE "idle"

\* the if / elif chain of main: the branch a page run takes
main_branch(search_btn, search_name, state) ==
    IF ~search_btn /\ search_name = <<>> /\ "selected_example" \notin DOMAIN state
    THEN "featured"
    ELSE IF search_btn /\ search_name # <<>> THEN "search"
    ELSE IF "selected_example" \in DOMAIN state THEN "example"
    ELSE "idle"

\* first branch of main: the featured Giant Panda page with the example
\* buttons; a pressed example button stores its species
RunFeatured ==
    /\ runs < MaxRuns
    /\ main_branch(FALSE, <<>>, session_state) = "featured"
    /\ \E selected_role \in DIRECTOR_PROMPT_TEMPLATES,
          pressed \in {None} \cup {Chars(e) : e \in ExampleChoices} :
        /\ pressed # None => run.branch = "featured"
        /\ session_state' =
              IF pressed # None THEN [selected_example |-> pressed.cs]
              ELSE session_state
        /\ run' = NoQuery("featured", FALSE, <<>>, selected_role)
    /\ runs' = runs + 1
    /\ UNCHANGED <<gbif_cache, inat_cache, now, ticks>>
    /\ UNCHANGED mergeVars
    /\ UNCHANGED callVars
    /\ UNCHANGED heritageVars

\* second branch: the search button was pressed with a name in the box
RunSearch ==
    /\ runs < MaxRuns
    /\ Drawn
    /\ \E search_name \in SearchNames, region \in Regions :
        /\ main_branch(TRUE, search_name, session_state) = "search"
        /\ \E r \in ProcessOutcomes(search_name, region) :
            /\ run' = Query("search", TRUE, search_name, r.run)
            /\ gbif_cache' = r.gbif_cache
            /\ inat_cache' = r.inat_cache
    /\ runs' = runs + 1
    /\ UNCHANGED <<session_state, now, ticks>>
    /\ UNCHANGED mergeVars
    /\ UNCHANGED callVars
    /\ UNCHANGED heritageVars

\* third branch: no search was submitted and an example is stored
RunExample ==
    /\ runs < MaxRuns
    /\ \E search_btn \in BOOLEAN, search_name \in SearchNames :
        /\ main_branch(search_btn, search_name, session_state) = "example"
        /\ \E r \in ProcessOutcomes(session_state["selected_example"], "") :
            /\ run' = Query("example", search_btn, search_name, r.run)
            /\ gbif_cache' = r.gbif_cache
            /\ inat_cache' = r.inat_cache
    /\ runs' = runs + 1
    /\ UNCHANGED <<session_state, now, ticks>>
    /\ UNCHANGED mergeVars
    /\ UNCHANGED callVars
    /\ UNCHANGED heritageVars

\* no branch: a name in the box without the button, or the button without a
\* name, and no example stored
RunIdle ==
    /\ runs < MaxRuns
    /\ Drawn
    /\ \E search_btn \in BOOLEAN, search_name \in SearchNames :
        /\ main_branch(search_btn, search_name, session_state) = "idle"
        /\ run' = NoQuery("idle", search_btn, search_name, NotRead)
    /\ runs' = runs + 1
    /\ UNCHANGED <<session_state, gbif_cache, inat_cache, now, ticks>>
    /\ UNCHANGED mergeVars
    /\ UNCHANGED callVars
    /\ UNCHANGED heritageVars

\* time passes before a page run
Tick ==
    /\ ticks < MaxTicks
    /\ runs < MaxRuns
    /\ \E d \in {1, CACHE_TTL} : now' = now + d
    /\ ticks' = ticks + 1
    /\ UNCHANGED <<session_state, gbif_cache, inat_cache, runs, run>>
    /\ UNCHANGED mergeVars
    /\ UNCHANGED callVars
    /\ UNCHANGED heritageVars

Next == RunFeatured \/ RunSearch \/ RunExample \/ RunIdle \/ Tick

Spec == Init /\ [][Next]_vars

----------------------------------------------------------------------------
(* merge_animal_data taken alone, over the adapters' possible results.     *)

Pending == [t |-> "pending"]

AppIdle ==
    /\ HeritageIdle
    /\ session_state = EmptyDict
    /\ gbif_cache = EmptyDict
    /\ inat_cache = EmptyDict
    /\ now = 0
    /\ ticks = 0
    /\ runs = 0
    /\ run = NoQuery("start", FALSE, <<>>, NotRead)

MergeInit ==
    /\ mg_gbif \in GbifReturns
    /\ mg_inat \in InatReturns
    /\ mg_out = Pending
    /\ AppIdle
    /\ fn_call = None
    /\ fn_result = None

Merge ==
    /\ mg_out = Pending
    /\ mg_out' = merge_animal_data(mg_gbif, mg_inat)
    /\ UNCHANGED <<mg_gbif, mg_inat>>
    /\ UNCHANGED appVars
    /\ UNCHANGED callVars
    /\ UNCHANGED heritageVars

MergeNext == Merge

SpecMerge == MergeInit /\ [][MergeNext]_vars

----------------------------------------------------------------------------
(* Properties of the page runs (Spec).                                     *)

\* the last run called process_animal_query
Processed == run.branch \in {"search", "example"}

\* the last run consulted both adapters
Fetched == Processed /\ run.gbif.called /\ run.inat.called

\* the query of the last run is on the allow-list of the Giant Panda data
AllowListed == Processed /\ lower(run.species_name) \in PandaNames

\* C1: when fetch_gbif_data returns a record and fetch_inaturalist_data
\* returns None, the query neither faults nor ends in NotFound: it yields a
\* record with the iNaturalist-sourced fields at their placeholder defaults.
C1_GbifAloneDegrades ==
    (Fetched /\ run.gbif.ret.t = "dict" /\ Truthy(run.gbif.ret) /\ run.inat.ret = None)
    => /\ run.outcome \notin {"fault", "no_data"}
       /\ run.animal_data.t = "dict"
       /\ run.animal_data.d["habitat"] = Str("No detailed records available")
       /\ run.animal_data.d["behavior"] = Str("No detailed records available")
       /\ run.animal_data.d["photos"] = List(<<>>)
       /\ run.animal_data.d["observations_count"] = Num(0)

\* C2: when fetch_gbif_data returns None and fetch_inaturalist_data returns
\* a record, the query does not end in NotFound but yields a record; NotFound
\* is produced only when both adapters returned None.
C2_InatAloneDegrades ==
    /\ (Fetched /\ run.gbif.ret = None /\ run.inat.ret.t = "dict")
       => (run.outcome # "no_data" /\ run.animal_data.t = "dict")
    /\ (Processed /\ run.outcome = "no_data")
       => (run.gbif.ret = None /\ run.inat.ret = None)

\* C3: whenever both adapters returned None, merge_animal_data returns None,
\* never a record, and process_animal_query reports the no-data outcome
\* without explaining or displaying anything.
C3_BothEmptyIsNotFound ==
    (Fetched /\ run.gbif.ret = None /\ run.inat.ret = None)
    => /\ run.animal_data = None
       /\ run.outcome = "no_data"
       /\ ~run.gen.entered
       /\ run.explanation = None

C3_Witness ==
    /\ Fetched
    /\ run.gbif.ret = None
    /\ run.inat.ret = None
    /\ run.gbif.failed
    /\ ~run.inat.failed
    /\ run.outcome = "no_data"

\* C5: the pre-authored explanation branch is entered only for a query whose
\* whole name, lower-cased, is one of the three allow-list entries, whatever
\* record the adapters return.
C5_CannedOnlyForAllowList ==
    (Processed /\ run.canned) => lower(run.species_name) \in PandaNames

\* C6: an allow-listed query with no credential displays exactly the
\* pre-authored explanation of the selected role, stripped, and calls
\* neither adapter nor the generation provider.
C6_CannedWithoutCalls ==
    (AllowListed /\ run.api_key = "")
    => /\ run.outcome = "displayed"
       /\ run.role \in DIRECTOR_PROMPT_TEMPLATES
       /\ run.explanation = Chars(<<"explanation for", run.role>>)
       /\ ~run.gbif.called
       /\ ~run.inat.called
       /\ ~run.gen.entered
       /\ ~run.gen.called

C6_Witness ==
    /\ AllowListed
    /\ run.api_key = ""
    /\ run.species_name # lower(run.species_name)
    /\ run.role = "biologist"
    /\ run.outcome = "displayed"
    /\ run.explanation # Chars(default_explanation("biologist"))

\* C7: the pre-authored explanation is returned only when no credential is
\* supplied: an allow-listed query with a credential goes through
\* generate_director_explanation and the generation provider.
C7_CannedOnlyWithoutCredential ==
    /\ (AllowListed /\ run.api_key # "") => (run.gen.entered /\ run.gen.called)
    /\ (Processed /\ run.canned /\ run.outcome = "displayed") => run.api_key = ""

\* the requests the last run sent to the providers
RequestNames ==
    (IF run.gbif.req.t = "dict" THEN {run.gbif.req.d["params"]["name"]} ELSE {})
    \cup
    (IF run.inat.req.t = "dict" THEN {run.inat.req.d["params"]["q"]} ELSE {})

\* C9: no request goes to GBIF or iNaturalist with an empty name parameter.
C9_NoEmptyNameRequest == \A n \in RequestNames : n # <<>>

\* C10: a failed adapter call is not memoized: a call answered from the
\* cache never returns the outcome of a request that failed.
C10_FailureNotMemoized ==
    /\ (run.gbif.called /\ run.gbif.hit) => ~run.gbif.failed
    /\ (run.inat.called /\ run.inat.hit) => ~run.inat.failed

----------------------------------------------------------------------------
(* Properties of merge_animal_data (SpecMerge).                            *)

\* the merge returned a record
Merged == mg_out.t = "dict"

\* C4: every field of a record merge_animal_data returns, each
\* classification rank included, holds a value and never null.
C4_NoNullField ==
    Merged
    => /\ \A k \in DOMAIN mg_out.d : mg_out.d[k] # None
       /\ \A r \in DOMAIN mg_out.d["classification"].d :
            mg_out.d["classification"].d[r] # None

\* a value a source does not supply: no key, null, or the empty string
Absent(v) == v \in {None, Str("")}

\* C8: the common name of a merged record is GBIF's vernacularName whenever
\* GBIF supplies one, whatever iNaturalist supplies; iNaturalist's
\* common_name when only iNaturalist supplies one; the placeholder when
\* neither does.
C8_PrimaryCommonNameWins ==
    Merged
    => LET v == DGet(mg_gbif, "vernacularName", None)
           c == DGet(mg_inat, "common_name", None)
           name == mg_out.d["common_name"]
       IN  /\ ~Absent(v) => name = v
           /\ (Absent(v) /\ ~Absent(c)) => name = c
           /\ (Absent(v) /\ Absent(c)) => name = Str("Unknown common name")

C8_Witness ==
    /\ Merged
    /\ ~Absent(DGet(mg_gbif, "vernacularName", None))
    /\ ~Absent(DGet(mg_inat, "common_name", None))
    /\ DGet(mg_gbif, "vernacularName", None) # DGet(mg_inat, "common_name", None)
    /\ mg_out.d["common_name"] = DGet(mg_gbif, "vernacularName", None)

----------------------------------------------------------------------------
(* Properties of the adapter cache (Spec).                                 *)

\* C11: a call of fetch_gbif_data or fetch_inaturalist_data whose arguments
\* have an entry younger than CACHE_TTL sends no request and returns the
\* value the storing call returned; with no entry, or one that has expired,
\* the call sends a request and stores what it returns.
C11_OneRequestWithinTtl ==
    [][ (runs' = runs + 1 /\ run'.branch \in {"search", "example"} /\ run'.gbif.called)
        => LET gk == <<run'.species_name, run'.region>>
               ik == <<run'.species_name>>
           IN  /\ IF gk \in DOMAIN gbif_cache /\ now < gbif_cache[gk].at + CACHE_TTL
                  THEN /\ run'.gbif.hit
                       /\ run'.gbif.req = None
                       /\ run'.gbif.ret = gbif_cache[gk].value
                       /\ gbif_cache' = gbif_cache
                  ELSE /\ ~run'.gbif.hit
                       /\ run'.gbif.req.t = "dict"
                       /\ gbif_cache'[gk].at = now
                       /\ gbif_cache'[gk].value = run'.gbif.ret
               /\ IF ik \in DOMAIN inat_cache /\ now < inat_cache[ik].at + CACHE_TTL
                  THEN /\ run'.inat.hit
                       /\ run'.inat.req = None
                       /\ run'.inat.ret = inat_cache[ik].value
                       /\ inat_cache' = inat_cache
                  ELSE /\ ~run'.inat.hit
                       /\ run'.inat.req.t = "dict"
                       /\ inat_cache'[ik].at = now
                       /\ inat_cache'[ik].value = run'.inat.ret ]_vars

C11_Witness ==
    /\ Fetched
    /\ run.gbif.hit
    /\ run.inat.hit
    /\ now = 1
    /\ run.gbif.ret.t = "dict"
    /\ run.inat.ret.t = "dict"

\* C12: the cache of fetch_gbif_data holds one entry per normalized query:
\* two live entries whose names are equal once stripped and lower-cased, with
\* the same region, are the same entry.
C12_NormalizedCacheKey ==
    \A k1, k2 \in DOMAIN gbif_cache :
        ( /\ lower(strip(k1[1])) = lower(strip(k2[1]))
          /\ k1[2] = k2[2]
          /\ cache_fresh(gbif_cache, k1)
          /\ cache_fresh(gbif_cache, k2) )
        => k1 = k2

----------------------------------------------------------------------------
(* The functions taken alone: fn_call holds a function's name and          *)
(* arguments, fn_result what the call returned.                            *)

\* names passed to the adapters
FetchNames == {<<"L", "i", "o", "n">>, <<"l", "i", "o", "n", " ">>}

\* what the GBIF endpoint can answer: a failure, a body without results, an
\* empty results array, or one result that deviates from the complete one
GbifCallNets ==
    {Net(k, None) : k \in NetFailures} \cup
    {Net("ok", Dict(EmptyDict)), Net("ok", Dict([results |-> List(<<>>)]))} \cup
    {Net("ok", Dict([results |-> List(<<Dict(r)>>)])) : r \in Altered(GbifFull, MaxAltered)}

InatCallNets ==
    {Net(k, None) : k \in NetFailures} \cup
    {Net("ok", Dict(EmptyDict)), Net("ok", Dict([results |-> List(<<>>)]))} \cup
    {Net("ok", Dict([results |-> List(<<Dict(r)>>)])) : r \in Altered(InatFull, MaxAltered)}

FetchCalls ==
    {[fn |-> "fetch_gbif_data", species_name |-> n, region |-> r, net |-> x] :
        n \in FetchNames, r \in Regions, x \in GbifCallNets} \cup
    {[fn |-> "fetch_inaturalist_data", species_name |-> n, net |-> x] :
        n \in FetchNames, x \in InatCallNets}

\* the other variables while a function is taken alone
CallFrame ==
    /\ UNCHANGED fn_call
    /\ UNCHANGED appVars
    /\ UNCHANGED mergeVars
    /\ UNCHANGED heritageVars

CallFetchGbif ==
    /\ fn_call.fn = "fetch_gbif_data"
    /\ fn_result = Pending
    /\ fn_result' = fetch_gbif_data(fn_call.species_name, fn_call.region, fn_call.net)
    /\ CallFrame

CallFetchInat ==
    /\ fn_call.fn = "fetch_inaturalist_data"
    /\ fn_result = Pending
    /\ fn_result' = fetch_inaturalist_data(fn_call.species_name, fn_call.net)
    /\ CallFrame

----------------------------------------------------------------------------
(* The generators of the Director, Curator and first species versions.     *)

\* the opening sentence of each Director template: the template texts are
\* four different strings
DIRECTOR_PROMPT_TEMPLATE(selected_role) ==
    CASE selected_role = "general" ->
            "You are a senior director with 30 years of experience in a world-class zoo,"
      [] selected_role = "kids" ->
            "You are a zoo director specialized in educating children (ages 6-12), with a playful, energetic tone."
      [] selected_role = "biologist" ->
            "You are a senior zoo director with a background in wildlife biology, speaking to professional biologists/students."
      [] selected_role = "tourist_guide" ->
            "You are an experienced zoo tour guide, speaking to casual tourists seeking an engaging, memorable experience."

\* the keys of CURATOR_PROMPT_TEMPLATES
CURATOR_PROMPT_TEMPLATES == {"general", "kids", "biologist", "tourist_guide"}

CURATOR_PROMPT_TEMPLATE(selected_role) ==
    CASE selected_role = "general" ->
            "You are a senior curator with 30 years of experience in a world-class zoo,"
      [] selected_role = "kids" ->
            "You are a zoo curator specialized in educating children (ages 6-12), with a playful, energetic tone."
      [] selected_role = "biologist" ->
            "You are a senior zoo curator with a background in wildlife biology, speaking to professional biologists/students."
      [] selected_role = "tourist_guide" ->
            "You are an experienced zoo tour guide, speaking to casual tourists seeking an engaging, memorable experience."

\* what the except clauses of the role-aware generators report
gen_error(gen_net) ==
    CASE gen_net = "auth" -> "Invalid or unauthorized API Key"
      [] gen_net = "rate" -> "API rate limit exceeded"
      [] gen_net \in {"api", "timeout"} -> "AI generation failed"
      [] gen_net = "other" -> "Unknown error"
      [] OTHER -> ""

\* generate_curator_explanation of the Curator version; temperature is in
\* tenths
generate_curator_explanation(animal_data, api_key, selected_role, gen_net) ==
    [entered |-> TRUE, called |-> TRUE,
     temperature |-> IF selected_role # "biologist" THEN 7 ELSE 3,
     max_tokens |-> IF selected_role = "biologist" THEN 1500 ELSE 1200,
     ret |-> CASE gen_net = "ok" ->
                    Chars(strip(<<" ", "generated for", selected_role, "\n">>))
               [] gen_net = "blank" -> Chars(strip(<<" ", "\n">>))
               [] OTHER -> None,
     error |-> gen_error(gen_net)]

\* generate_curator_explanation of the first species version: one prompt,
\* the credential read from st.secrets, every exception caught alike
early_generate_curator_explanation(animal_data, api_key, gen_net) ==
    IF api_key = ""
    THEN [entered |-> TRUE, called |-> FALSE, temperature |-> 0, max_tokens |-> 0,
          ret |-> None, error |-> "Please enter your OpenAI API Key first"]
    ELSE [entered |-> TRUE, called |-> TRUE, temperature |-> 7, max_tokens |-> 1000,
          ret |-> CASE gen_net = "ok" -> Chars(strip(<<" ", "generated", "\n">>))
                    [] gen_net = "blank" -> Chars(strip(<<" ", "\n">>))
                    [] OTHER -> None,
          error |-> IF gen_net \in {"ok", "blank"} THEN ""
                    ELSE "AI explanation generation failed"]

\* the records handed to the generators
GenRecords ==
    {GIANT_PANDA_DEFAULT_DATA,
     merge_animal_data(Dict(GbifFull), inat_extract(Dict(InatFull))),
     \* a record whose fields are all placeholders
     merge_animal_data(Dict([key |-> Str("GBIF:1")]), Dict(EmptyDict))}

\* the provider answers a call without a credential with an
\* authentication error
GenNetsFor(api_key) == IF api_key = "" THEN {"auth"} ELSE GenOutcomes

GenCalls ==
    UNION { { [fn |-> f, animal_data |-> a, api_key |-> k, selected_role |-> r,
               gen_net |-> g] :
                f \in {"generate_director_explanation", "generate_curator_explanation"},
                a \in GenRecords, r \in DIRECTOR_PROMPT_TEMPLATES,
                g \in GenNetsFor(k) } :
            k \in ApiKeys }

CallGenerateDirector ==
    /\ fn_call.fn = "generate_director_explanation"
    /\ fn_result = Pending
    /\ fn_result' = generate_director_explanation(fn_call.animal_data, fn_call.api_key,
                                                  fn_call.selected_role, fn_call.gen_net)
    /\ CallFrame

CallGenerateCurator ==
    /\ fn_call.fn = "generate_curator_explanation"
    /\ fn_result = Pending
    /\ fn_result' = generate_curator_explanation(fn_call.animal_data, fn_call.api_key,
                                                 fn_call.selected_role, fn_call.gen_net)
    /\ CallFrame

----------------------------------------------------------------------------
(* The query handling of the Curator version and of the first species      *)
(* version, from the adapters' answers on.                                 *)

\* merge_animal_data of the Curator version: the text of the Director's
\* without the "chinese_name" entry
curator_merge_animal_data(gbif_data, inat_data) ==
    LET merged == merge_animal_data(gbif_data, inat_data)
    IN  IF merged.t = "dict"
        THEN Dict([k \in (DOMAIN merged.d) \ {"chinese_name"} |-> merged.d[k]])
        ELSE merged

\* the display code of the Curator version: ', '.join of distribution and
\* the {:,} format of observations_count
curator_display_raises(animal_data) ==
    \/ animal_data.d["distribution"].t # "list"
    \/ \E i \in DOMAIN animal_data.d["distribution"].l :
            animal_data.d["distribution"].l[i].t # "str"
    \/ animal_data.d["observations_count"].t # "int"

\* process_animal_query of the Curator version, its adapters (the same text
\* as the Director's) answering from the network
curator_process_animal_query(species_name, region, api_key, selected_role, gbif_net, inat_net, gen_net) ==
    LET g == fetch_gbif_data(species_name, region, gbif_net)
        i == fetch_inaturalist_data(species_name, inat_net)
        animal_data == IF i.ret.t = "raise" THEN i.ret
                       ELSE curator_merge_animal_data(g.ret, i.ret)
        gen == IF api_key # ""
               THEN generate_curator_explanation(animal_data, api_key,
                                                 selected_role, gen_net)
               ELSE NoGen
        out(outcome, gn) ==
            [species_name |-> species_name, gbif |-> g, inat |-> i,
             animal_data |-> animal_data, gen |-> gn, explanation |-> gn.ret,
             outcome |-> outcome]
    IN  IF animal_data.t = "raise" THEN out("fault", NoGen)
        ELSE IF ~Truthy(animal_data) THEN out("no_data", NoGen)
        ELSE IF curator_display_raises(animal_data) THEN out("fault", gen)
        ELSE IF Truthy(gen.ret) THEN out("displayed", gen)
        ELSE out("not_generated", gen)

\* merge_animal_data of the first species version; its placeholders are
\* Chinese texts, written here in English
early_merge_animal_data(gbif_data, inat_data) ==
    IF ~Truthy(gbif_data) THEN None
    ELSE IF gbif_data.t # "dict" \/ inat_data.t # "dict" THEN Raise("AttributeError")
    ELSE IF DGet(gbif_data, "distribution", Dict(EmptyDict)).t # "dict"
    THEN Raise("AttributeError")
    ELSE Dict(
      [scientific_name |->
           DGet(gbif_data, "scientificName", Str("(unknown scientific name)")),
       chinese_name |->
           DGet(gbif_data, "vernacularName",
                DGet(inat_data, "common_name", Str("(unknown Chinese name)"))),
       english_name |->
           DGet(gbif_data, "englishName", Str("(unknown English name)")),
       classification |->
           Dict([kingdom |-> DGet(gbif_data, "kingdom", None),
                 phylum |-> DGet(gbif_data, "phylum", None),
                 class |-> DGet(gbif_data, "class", None),
                 order |-> DGet(gbif_data, "order", None),
                 family |-> DGet(gbif_data, "family", None),
                 genus |-> DGet(gbif_data, "genus", None)]),
       distribution |->
           DGet(DGet(gbif_data, "distribution", Dict(EmptyDict)), "countries",
                List(<<Str("(unknown distribution)")>>)),
       conservation_status |->
           DGet(gbif_data, "status", Str("(unknown conservation status)")),
       habitat |-> DGet(inat_data, "habitat", Str("(unknown habitat)")),
       behavior |-> DGet(inat_data, "behavior", Str("(unknown behavior)")),
       photos |-> DGet(inat_data, "photos", List(<<>>)),
       observations_count |-> DGet(inat_data, "observations_count", Num(0))])

\* what a pipeline of the first version did: the merged record, the
\* generator's call and the outcome
early_outcome(animal_data, gen, outcome) ==
    [animal_data |-> animal_data, gen |-> gen, explanation |-> gen.ret,
     outcome |-> outcome]

\* the search branch of the first version: st.stop() on no data
early_search(gbif_data, inat_data, api_key, gen_net) ==
    LET animal_data == early_merge_animal_data(gbif_data, inat_data)
        gen == early_generate_curator_explanation(animal_data, api_key, gen_net)
    IN  IF animal_data.t = "raise" THEN early_outcome(animal_data, NoGen, "fault")
        ELSE IF ~Truthy(animal_data) THEN early_outcome(animal_data, NoGen, "no_data")
        ELSE IF \/ animal_data.d["distribution"].t # "list"
                \/ animal_data.d["observations_count"].t # "int"
        THEN early_outcome(animal_data, gen, "fault")
        ELSE IF Truthy(gen.ret) THEN early_outcome(animal_data, gen, "displayed")
        ELSE early_outcome(animal_data, gen, "not_generated")

\* the example branch of the first version: the merged value goes to the
\* generator and to the display code unchecked
early_example(gbif_data, inat_data, api_key, gen_net) ==
    LET animal_data == early_merge_animal_data(gbif_data, inat_data)
        gen == early_generate_curator_explanation(animal_data, api_key, gen_net)
    IN  IF animal_data.t = "raise" THEN early_outcome(animal_data, NoGen, "fault")
        \* animal_data['chinese_name'] on None
        ELSE IF animal_data.t # "dict" THEN early_outcome(animal_data, gen, "fault")
        ELSE IF animal_data.d["distribution"].t # "list"
        THEN early_outcome(animal_data, gen, "fault")
        ELSE early_outcome(animal_data, gen, "displayed")

\* the arguments of the query handlers taken alone
QueryNames ==
    {<<"L", "i", "o", "n">>, <<"G", "i", "a", "n", "t", " ", "P", "a", "n", "d", "a">>}

\* the answers of iNaturalist, one with a photo entry that has no "url"
InatQueryNets ==
    InatNets \cup
    {Net("ok", Dict([results |-> List(<<Dict(
        [InatFull EXCEPT !.photos = List(<<Photo("p1"), Dict([id |-> Num(7)])>>)])>>)]))}

QueryCalls ==
    UNION { { [fn |-> f, species_name |-> n, region |-> "", api_key |-> k,
               selected_role |-> r, gbif_net |-> g, inat_net |-> i, gen_net |-> x] :
                f \in {"process_animal_query", "curator_process_animal_query"},
                n \in QueryNames, r \in DIRECTOR_PROMPT_TEMPLATES,
                g \in GbifNets, i \in InatQueryNets, x \in GenNetsFor(k) } :
            k \in ApiKeys }
    \cup
    UNION { { [fn |-> f, gbif_data |-> g, inat_data |-> i, api_key |-> k, gen_net |-> x] :
                f \in {"early_search", "early_example"},
                g \in {None, Dict(GbifFull)},
                i \in {None, inat_extract(Dict(InatFull))},
                x \in GenNetsFor(k) } :
            k \in ApiKeys }

CallProcessDirector ==
    /\ fn_call.fn = "process_animal_query"
    /\ fn_result = Pending
    /\ fn_result' = process_animal_query(fn_call.species_name, fn_call.region,
                        fn_call.api_key, fn_call.selected_role, fn_call.gbif_net,
                        fn_call.inat_net, fn_call.gen_net).run
    /\ CallFrame

CallProcessCurator ==
    /\ fn_call.fn = "curator_process_animal_query"
    /\ fn_result = Pending
    /\ fn_result' = curator_process_animal_query(fn_call.species_name, fn_call.region,
                        fn_call.api_key, fn_call.selected_role, fn_call.gbif_net,
                        fn_call.inat_net, fn_call.gen_net)
    /\ CallFrame

CallEarlySearch ==
    /\ fn_call.fn = "early_search"
    /\ fn_result = Pending
    /\ fn_result' = early_search(fn_call.gbif_data, fn_call.inat_data,
                                 fn_call.api_key, fn_call.gen_net)
    /\ CallFrame

CallEarlyExample ==
    /\ fn_call.fn = "early_example"
    /\ fn_result = Pending
    /\ fn_result' = early_example(fn_call.gbif_data, fn_call.inat_data,
                                  fn_call.api_key, fn_call.gen_net)
    /\ CallFrame

----------------------------------------------------------------------------
(* The heritage application: get_unesco_ich_data and                       *)
(* generate_global_ich_explanation, in their first and final versions.     *)

\* characters of a description that go into the data summary
SUMMARY_CHARS == 100

\* a heritage item of the providers' data
HeritageItem(title, region, year) ==
    Dict([title |-> Str(title), country |-> Str("China"), region |-> Str(region),
          year |-> Num(year), description |-> Chars(<<"o", "p", "e", "r", "a">>)])

\* the two items get_unesco_ich_data returns from its except clause
MOCK_ICH_DATA ==
    List(<<Dict([title |-> Str("Kunqu Opera"), country |-> Str("China"),
                 year |-> Num(2008), description |-> Chars(<<"K", "u", "n", "q", "u">>)]),
           Dict([title |-> Str("Peking Opera"), country |-> Str("China"),
                 year |-> Num(2010), description |-> Chars(<<"P", "e", "k", "i", "n", "g">>)])>>)

\* the items of a data source, in the order the source lists them
SourceItems ==
    <<HeritageItem("Kunqu Opera", "Asia", 2008),
      HeritageItem("Flamenco", "Europe", 2010),
      HeritageItem("Peking Opera", "Asia", 2010)>>

\* a response with a status code and the value response.json() gives; None
\* stands for a body json() or the slice raises on
Response(status, data) == [kind |-> "response", status |-> status, data |-> data]

\* what a request without a timeout can end in: a response, a transport
\* error, or no answer at all
HeritageAnswers ==
    {Response(200, List(SourceItems)), Response(200, List(<<>>)), Response(200, None),
     Response(503, None), Net("transport", None), Net("silent", None)}

\* a request as requests.get receives it
Request(url, params, timeout) == [url |-> url, params |-> params, timeout |-> timeout]

\* what a call of get_unesco_ich_data did: the requests it sent, whether it
\* returned, the value returned, the path taken, and whether st.error showed
unesco_result(requests, returned, ret, path) ==
    [requests |-> requests, returned |-> returned, ret |-> ret, path |-> path,
     error |-> path \in {"mock", "failed"}]

\* the test of the local filter
unesco_matches(item, region, year) ==
    /\ (~Truthy(region) \/ DGet(item, "region", None) = region)
    /\ (~Truthy(year) \/ DGet(item, "year", None) = year)

\* get_unesco_ich_data of the final version
get_unesco_ich_data(region, limit, year, first_net, alt_net) ==
    LET first == Request("ih_data.json", EmptyDict, None)
        alt == Request("exports/json", [limit |-> limit], None)
        keep(item) == unesco_matches(item, region, year)
    IN  CASE first_net.kind = "silent" ->
                unesco_result(<<first>>, FALSE, None, "blocked")
          [] first_net.kind = "transport" ->
                unesco_result(<<first>>, TRUE, MOCK_ICH_DATA, "mock")
          [] first_net.kind = "response" /\ first_net.status = 200 ->
                IF first_net.data.t # "list"
                THEN unesco_result(<<first>>, TRUE, MOCK_ICH_DATA, "mock")
                ELSE unesco_result(<<first>>, TRUE,
                        List(Take(SelectSeq(Take(first_net.data.l, limit), keep), limit)),
                        "first")
          [] OTHER ->
                CASE alt_net.kind = "silent" ->
                        unesco_result(<<first, alt>>, FALSE, None, "blocked")
                  [] alt_net.kind = "transport" ->
                        unesco_result(<<first, alt>>, TRUE, MOCK_ICH_DATA, "mock")
                  [] OTHER ->
                        IF alt_net.data.t # "list"
                        THEN unesco_result(<<first, alt>>, TRUE, MOCK_ICH_DATA, "mock")
                        ELSE unesco_result(<<first, alt>>, TRUE,
                                List(Take(alt_net.data.l, limit)), "alt")

\* get_unesco_ich_data of the first version: one request the provider
\* filters, raise_for_status, and [] from the except clause
early_get_unesco_ich_data(region, limit, year, net) ==
    LET refine == IF Truthy(year) THEN <<"region", region, "year", year>>
                  ELSE <<"region", region>>
        request == Request("intangible-heritage/records",
                           [limit |-> limit, refine |-> refine], None)
    IN  CASE net.kind = "silent" -> unesco_result(<<request>>, FALSE, None, "blocked")
          [] net.kind = "response" /\ net.status = 200 /\ net.data.t = "dict"
             /\ "results" \in DOMAIN net.data.d ->
                unesco_result(<<request>>, TRUE, net.data.d["results"], "first")
          [] OTHER -> unesco_result(<<request>>, TRUE, List(<<>>), "failed")

\* the sidebar of the heritage app: region, limit (some of 1..10), year
HeritageRegions == {Str("Asia"), Str("Europe")}

HeritageLimits == {1, 2, 3}

HeritageYears == {None, Num(2010)}

\* the answers the alternate endpoint is varied over when it is asked
AltAnswersFor(first_net) ==
    IF first_net.kind = "response" /\ first_net.status # 200
    THEN HeritageAnswers
    ELSE {Response(200, List(<<>>))}

\* a string built from parts (an f-string)
FString(parts) == [t |-> "str", parts |-> parts]

\* slicing [:100] of a value: strings and lists can be sliced, None and
\* numbers cannot
slice_summary(v) ==
    CASE v.t = "str" /\ "cs" \in DOMAIN v -> Chars(Take(v.cs, SUMMARY_CHARS))
      [] v.t = "str" -> v
      [] v.t = "list" -> List(Take(v.l, SUMMARY_CHARS))
      [] OTHER -> Raise("TypeError")

\* the data summary of the final version: one line per item, with defaults
\* for absent keys
data_summary(ich_data) ==
    LET line(item) ==
            <<DGet(item, "title", Str("unknown")), DGet(item, "country", Str("unknown")),
              DGet(item, "year", Str("unknown")),
              slice_summary(DGet(item, "description", Str("none yet")))>>
    IN  IF \E i \in DOMAIN ich_data.l : line(ich_data.l[i])[4].t = "raise"
        THEN Raise("TypeError")
        ELSE List([i \in DOMAIN ich_data.l |-> line(ich_data.l[i])])

\* the data summary of the first version: item.get(key) without defaults
early_data_summary(ich_data) ==
    LET line(item) ==
            <<DGet(item, "title", None), DGet(item, "country", None),
              DGet(item, "year", None), slice_summary(DGet(item, "description", None))>>
    IN  IF \E i \in DOMAIN ich_data.l : line(ich_data.l[i])[4].t = "raise"
        THEN Raise("TypeError")
        ELSE List([i \in DOMAIN ich_data.l |-> line(ich_data.l[i])])

\* what a call of generate_global_ich_explanation did; temperature is in
\* tenths
global_result(called, prompt, ret, shown) ==
    [called |-> called, prompt |-> prompt, temperature |-> IF called THEN 8 ELSE 0,
     ret |-> ret, shown |-> shown]

\* a generate_global_ich_explanation that calls the provider without a client
no_client_never(client) == FALSE

\* the guard `if not client`
no_client(client) == ~Truthy(client)

\* generate_global_ich_explanation of the final version
generate_global_ich_explanation(ich_data, client, gen_net) ==
    IF no_client(client)
    THEN global_result(FALSE, None, Str(""), "Please configure the OpenAI API Key first")
    ELSE LET summary == data_summary(ich_data)
             prompt == FString(<<"expert prompt", summary>>)
         IN  IF summary.t = "raise" THEN global_result(FALSE, None, summary, "")
             ELSE IF gen_net = "ok"
             THEN global_result(TRUE, prompt, Str("generated"), "")
             ELSE IF gen_net = "blank"
             THEN global_result(TRUE, prompt, Str(""), "")
             ELSE global_result(TRUE, prompt,
                                FString(<<"introduction", summary, "closing question">>),
                                "Failed to generate the explanation")

\* generate_global_ich_explanation of the first version: a module-level
\* client, no except clause
early_generate_global_ich_explanation(ich_data, gen_net) ==
    LET summary == early_data_summary(ich_data)
        prompt == FString(<<"expert prompt", summary>>)
    IN  IF summary.t = "raise" THEN global_result(FALSE, None, summary, "")
        ELSE IF gen_net = "ok" THEN global_result(TRUE, prompt, Str("generated"), "")
        ELSE IF gen_net = "blank" THEN global_result(TRUE, prompt, Str(""), "")
        ELSE global_result(TRUE, prompt, Raise(gen_net), "")

\* an item with the keys of absent left out, or set to null
ItemWithout(absent) ==
    LET item == HeritageItem("Flamenco", "Europe", 2010).d
    IN  Dict([k \in (DOMAIN item) \ absent |-> item[k]])

\* the lists handed to generate_global_ich_explanation
IchLists ==
    {List(<<>>), MOCK_ICH_DATA, List(SourceItems),
     List(<<ItemWithout({"description"})>>),
     List(<<ItemWithout({"title", "country", "year"})>>),
     List(<<ItemWithout({"title", "country", "year", "description", "region"})>>),
     List(<<Dict([HeritageItem("Flamenco", "Europe", 2010).d EXCEPT !.description = None])>>),
     List(<<Dict([HeritageItem("Flamenco", "Europe", 2010).d
                    EXCEPT !.description =
                        Chars([i \in 1..(SUMMARY_CHARS + 1) |-> "a"])])>>)}

\* the OpenAI client, or None when no key is configured
Clients == {None, Str("client")}

HeritageCalls ==
    UNION { { [fn |-> "get_unesco_ich_data", region |-> r, limit |-> l, year |-> y,
               first_net |-> f, alt_net |-> a] :
                r \in HeritageRegions, l \in HeritageLimits, y \in HeritageYears,
                a \in AltAnswersFor(f) } :
            f \in HeritageAnswers }
    \cup
    { [fn |-> "early_get_unesco_ich_data", region |-> r, limit |-> l, year |-> y, net |-> n] :
        r \in HeritageRegions, l \in HeritageLimits, y \in HeritageYears,
        n \in {Response(200, Dict([results |-> List(SourceItems)])),
               Response(200, Dict(EmptyDict)), Response(503, None),
               Net("transport", None), Net("silent", None)} }
    \cup
    UNION { { [fn |-> "generate_global_ich_explanation", ich_data |-> d, client |-> c,
               gen_net |-> g] :
                d \in IchLists, g \in IF Truthy(c) THEN GenOutcomes ELSE {"ok"} } :
            c \in Clients }
    \cup
    { [fn |-> "early_generate_global_ich_explanation", ich_data |-> d, gen_net |-> g] :
        d \in IchLists, g \in GenOutcomes }

CallGetUnesco ==
    /\ fn_call.fn = "get_unesco_ich_data"
    /\ fn_result = Pending
    /\ fn_result' = get_unesco_ich_data(fn_call.region, fn_call.limit, fn_call.year,
                                        fn_call.first_net, fn_call.alt_net)
    /\ CallFrame

CallEarlyGetUnesco ==
    /\ fn_call.fn = "early_get_unesco_ich_data"
    /\ fn_result = Pending
    /\ fn_result' = early_get_unesco_ich_data(fn_call.region, fn_call.limit,
                                              fn_call.year, fn_call.net)
    /\ CallFrame

CallGenerateGlobal ==
    /\ fn_call.fn = "generate_global_ich_explanation"
    /\ fn_result = Pending
    /\ fn_result' = generate_global_ich_explanation(fn_call.ich_data, fn_call.client,
                                                    fn_call.gen_net)
    /\ CallFrame

CallEarlyGenerateGlobal ==
    /\ fn_call.fn = "early_generate_global_ich_explanation"
    /\ fn_result = Pending
    /\ fn_result' = early_generate_global_ich_explanation(fn_call.ich_data, fn_call.gen_net)
    /\ CallFrame

----------------------------------------------------------------------------
(* The specification of the functions taken alone.                         *)

CallsInit ==
    /\ fn_call \in FetchCalls \cup GenCalls \cup QueryCalls \cup HeritageCalls
    /\ fn_result = Pending
    /\ AppIdle
    /\ mg_gbif = None
    /\ mg_inat = None
    /\ mg_out = None

CallsNext ==
    \/ CallFetchGbif
    \/ CallFetchInat
    \/ CallGenerateDirector
    \/ CallGenerateCurator
    \/ CallProcessDirector
    \/ CallProcessCurator
    \/ CallEarlySearch
    \/ CallEarlyExample
    \/ CallGetUnesco
    \/ CallEarlyGetUnesco
    \/ CallGenerateGlobal
    \/ CallEarlyGenerateGlobal

SpecCalls == CallsInit /\ [][CallsNext]_vars

\* the call of the function taken alone has returned
Returned == fn_result # Pending

----------------------------------------------------------------------------
(* Properties of the adapters taken alone (SpecCalls).                     *)

AdapterFns == {"fetch_gbif_data", "fetch_inaturalist_data"}

\* the adapter of the call, applied to its arguments with another answer
refetch(c, net) ==
    IF c.fn = "fetch_gbif_data"
    THEN fetch_gbif_data(c.species_name, c.region, net)
    ELSE fetch_inaturalist_data(c.species_name, net)

\* what an adapter hands to its caller: the value it returns, and the
\* warning its except clause shows
fetch_outcome(r) == [ret |-> r.ret, warning |-> r.warning]

\* the endpoint answered with a non-empty results array whose first result
\* holds no null: keys are present with a value, or absent
AnsweredWithoutNull(c) ==
    /\ c.net.kind = "ok"
    /\ Truthy(DGet(c.net.data, "results", None))
    /\ LET first == c.net.data.d["results"].l[1]
       IN  \A k \in DOMAIN first.d : first.d[k] # None

\* C13: an adapter answered with a non-empty results array returns a
\* record and raises no fault, whatever keys are absent from the first
\* result or from its photo entries.
C13_NoMissingKeyFault ==
    (Returned /\ fn_call.fn \in AdapterFns /\ AnsweredWithoutNull(fn_call))
    => fn_result.ret.t = "dict"

\* the four cases an adapter's caller is to tell apart
FetchCases == {"timeout", "transport", "http", "empty"}

fetch_case_net(c) ==
    IF c = "empty" THEN Net("ok", Dict([results |-> List(<<>>)])) ELSE Net(c, None)

\* C15: what an adapter hands to its caller differs pairwise between a
\* timeout, a transport failure, a non-2xx status and an empty result.
C15_FetchOutcomesDistinct ==
    (Returned /\ fn_call.fn \in AdapterFns
     /\ \E c \in FetchCases : fn_call.net = fetch_case_net(c))
    => \A c2 \in FetchCases :
          fetch_case_net(c2) # fn_call.net
          => fetch_outcome(fn_result) # fetch_outcome(refetch(fn_call, fetch_case_net(c2)))

----------------------------------------------------------------------------
(* Properties of the generators taken alone (SpecCalls).                   *)

GeneratorFns == {"generate_director_explanation", "generate_curator_explanation"}

\* the generator of the call c, applied to the arguments of c
regenerate(c) ==
    IF c.fn = "generate_director_explanation"
    THEN generate_director_explanation(c.animal_data, c.api_key, c.selected_role, c.gen_net)
    ELSE generate_curator_explanation(c.animal_data, c.api_key, c.selected_role, c.gen_net)

\* the template the generator of the call c formats
template_of(c) ==
    IF c.fn = "generate_director_explanation"
    THEN DIRECTOR_PROMPT_TEMPLATE(c.selected_role)
    ELSE CURATOR_PROMPT_TEMPLATE(c.selected_role)

\* what a generator hands to its caller: the value it returns, and the
\* error its except clause shows
gen_outcome(r) == [ret |-> r.ret, error |-> r.error]

\* the provider called
Generated == Returned /\ fn_call.fn \in GeneratorFns /\ fn_result.called

\* the four kinds of failed generation call
GenFailures == {"auth", "rate", "api", "timeout"}

\* C14: what a role-aware generator hands to its caller differs pairwise
\* between an unauthorized credential, rate limiting, another provider fault
\* and a network timeout.
C14_GenFailuresDistinct ==
    (Generated /\ fn_call.gen_net \in GenFailures)
    => \A k2 \in GenFailures \ {fn_call.gen_net} :
          gen_outcome(fn_result) # gen_outcome(regenerate([fn_call EXCEPT !.gen_net = k2]))

\* C19: in each role-aware generator the call for the biologist role has a
\* strictly lower temperature and a strictly larger max_tokens than the call
\* for any other role.
C19_BiologistStricter ==
    (Generated /\ fn_call.selected_role # "biologist")
    => LET b == regenerate([fn_call EXCEPT !.selected_role = "biologist"])
       IN  /\ b.temperature < fn_result.temperature
           /\ b.max_tokens > fn_result.max_tokens

\* C20: two different roles have different template texts and different
\* (temperature, max_tokens) pairs in the generation call.
C20_RolesDistinct ==
    Generated
    => \A r2 \in DIRECTOR_PROMPT_TEMPLATES \ {fn_call.selected_role} :
          LET c2 == [fn_call EXCEPT !.selected_role = r2]
              o2 == regenerate(c2)
          IN  /\ template_of(fn_call) # template_of(c2)
              /\ <<fn_result.temperature, fn_result.max_tokens>>
                    # <<o2.temperature, o2.max_tokens>>

----------------------------------------------------------------------------
(* Properties of the query handlers taken alone (SpecCalls).               *)

RoleAwareHandlers == {"process_animal_query", "curator_process_animal_query"}

Handlers == RoleAwareHandlers \cup {"early_search", "early_example"}

\* C16: once merge_animal_data has returned None the query ends in the
\* no-data outcome: the generator is not entered and nothing of a record is
\* read or displayed, on the search path and the example path of each
\* version.
C16_NotFoundIsTerminal ==
    (Returned /\ fn_call.fn \in Handlers /\ fn_result.animal_data = None)
    => /\ ~fn_result.gen.entered
       /\ ~fn_result.gen.called
       /\ fn_result.explanation = None
       /\ fn_result.outcome = "no_data"

\* the handler displayed the merged record to its end
RecordShown == fn_result.outcome \in {"displayed", "not_generated"}

\* C17: process_animal_query displays a record only together with an
\* explanation.
C17_RecordOnlyWithExplanation ==
    (Returned /\ fn_call.fn \in RoleAwareHandlers /\ RecordShown)
    => Truthy(fn_result.explanation)

\* the handler merged a record that is not the Giant Panda's
OtherRecord ==
    /\ Returned
    /\ fn_call.fn \in RoleAwareHandlers
    /\ fn_result.animal_data.t = "dict"
    /\ DGet(fn_result.animal_data, "scientific_name", None) # Str("Ailuropoda melanoleuca")

\* C18: for a record that is not the Giant Panda's and no credential,
\* process_animal_query does not call the generation provider and reports
\* the missing credential, an outcome the no-data case never has; the
\* no-data outcome is reported only when there is no record.
C18_NoKeyNoGeneration ==
    /\ (OtherRecord /\ fn_call.api_key = "")
       => /\ ~fn_result.gen.called
          /\ fn_result.outcome =
                IF fn_call.fn = "process_animal_query" THEN "key_required"
                ELSE "not_generated"
          /\ fn_result.outcome # "no_data"
    /\ (Returned /\ fn_call.fn \in RoleAwareHandlers /\ fn_result.outcome = "no_data")
       => fn_result.animal_data = None

C18_Witness ==
    /\ OtherRecord
    /\ fn_call.fn = "process_animal_query"
    /\ fn_call.api_key = ""
    /\ fn_result.outcome = "key_required"
    /\ ~fn_result.gen.entered

----------------------------------------------------------------------------
(* Properties of the placeholders of merge_animal_data (SpecMerge).        *)

\* C24: when no source supplies a value, merge_animal_data sets a scalar
\* field to its placeholder and a list field to an empty but present list:
\* the distribution of a GBIF record without distribution countries is the
\* empty list, and so is photos when iNaturalist has none.
C24_AbsentBecomesPlaceholder ==
    Merged
    => LET distribution == DGet(mg_gbif, "distribution", Dict(EmptyDict))
           countries == DGet(distribution, "countries", List(<<>>))
       IN  /\ "englishName" \notin DOMAIN mg_gbif.d
                => mg_out.d["english_name"] = Str("Unknown English name")
           /\ "status" \notin DOMAIN mg_gbif.d
                => mg_out.d["conservation_status"] = Str("Unknown conservation status")
           /\ "habitat" \notin DOMAIN mg_inat.d
                => mg_out.d["habitat"] = Str("No detailed records available")
           /\ "photos" \notin DOMAIN mg_inat.d => mg_out.d["photos"] = List(<<>>)
           /\ ~Truthy(countries) => mg_out.d["distribution"] = List(<<>>)

----------------------------------------------------------------------------
(* Properties of the role set of the Director version (Spec).              *)

\* C28: DIRECTOR_PROMPT_TEMPLATES, ROLE_DESCRIPTIONS and
\* GIANT_PANDA_DEFAULT_DATA["default_explanation"] have the same four keys,
\* so the role of every page run has a template, a description and a
\* pre-authored explanation.
C28_RoleKeySetsAgree ==
    /\ Cardinality(DIRECTOR_PROMPT_TEMPLATES) = 4
    /\ ROLE_DESCRIPTIONS = DIRECTOR_PROMPT_TEMPLATES
    /\ DOMAIN GIANT_PANDA_DEFAULT_DATA.d["default_explanation"].d = DIRECTOR_PROMPT_TEMPLATES
    /\ run.role # NotRead
       => /\ run.role \in DIRECTOR_PROMPT_TEMPLATES
          /\ run.role \in ROLE_DESCRIPTIONS
          /\ run.role \in DOMAIN GIANT_PANDA_DEFAULT_DATA.d["default_explanation"].d

C28_Witness ==
    /\ run.branch = "featured"
    /\ run.role = "tourist_guide"
    /\ run.role \in ROLE_DESCRIPTIONS
    /\ run.role \in DOMAIN GIANT_PANDA_DEFAULT_DATA.d["default_explanation"].d

----------------------------------------------------------------------------
(* Properties of the branches of main (Spec).                              *)

\* the run submitted a search: the button pressed with a name in the box
Submitted(r) == r.search_btn /\ r.search_name # <<>>

\* C29: each page run processes at most one query; a submitted search
\* processes the typed name whatever example is stored; the stored example
\* is processed only by a run in which no search was submitted; and once an
\* example is stored the session state stays as it is.
C29_SearchBeforeExample ==
    [][ /\ "selected_example" \in DOMAIN session_state => session_state' = session_state
        /\ runs' = runs + 1
           => /\ Submitted(run')
                 => (run'.branch = "search" /\ run'.species_name = run'.search_name)
              /\ run'.branch = "search" => Submitted(run')
              /\ run'.branch = "example"
                 => /\ ~Submitted(run')
                    /\ "selected_example" \in DOMAIN session_state
                    /\ run'.species_name = session_state["selected_example"]
              /\ run'.branch \in {"featured", "idle"}
                 => (run'.species_name = None /\ ~run'.gbif.called /\ ~run'.gen.entered) ]_vars

C29_Witness ==
    /\ run.branch = "search"
    /\ "selected_example" \in DOMAIN session_state
    /\ Submitted(run)
    /\ run.species_name = run.search_name
    /\ run.species_name # session_state["selected_example"]

----------------------------------------------------------------------------
(* Properties of get_unesco_ich_data taken alone (SpecCalls).              *)

\* a call of the final get_unesco_ich_data that came back
UnescoReturned ==
    Returned /\ fn_call.fn = "get_unesco_ich_data" /\ fn_result.returned

\* the request was answered with an error: a transport error or a status
\* other than 2xx
RequestFailed(net) ==
    net.kind = "transport" \/ (net.kind = "response" /\ net.status \notin 200..299)

\* C21: the final get_unesco_ich_data requests the alternate endpoint if and
\* only if its first request failed: after a non-2xx status or a transport
\* error it does, after a first request that succeeded it does not.
C21_AlternateIffFirstFailed ==
    UnescoReturned
    => (Len(fn_result.requests) = 2 <=> RequestFailed(fn_call.first_net))

\* C22: when every heritage request fails, get_unesco_ich_data returns no
\* records: the final version when the first source and the alternate
\* endpoint both fail, the first version when its one request fails.
C22_TotalFailureIsNoData ==
    /\ (UnescoReturned /\ RequestFailed(fn_call.first_net) /\ RequestFailed(fn_call.alt_net))
       => fn_result.ret = List(<<>>)
    /\ (Returned /\ fn_call.fn = "early_get_unesco_ich_data" /\ RequestFailed(fn_call.net))
       => fn_result.ret = List(<<>>)

\* C26: the final get_unesco_ich_data returns at most limit records on
\* every path.
C26_AtMostLimit ==
    UnescoReturned => Len(fn_result.ret.l) <= fn_call.limit

\* C27: every record the final get_unesco_ich_data returns satisfies the
\* region filter and the year filter, on every path; and from the first
\* source it returns the first limit of all the records that satisfy them.
C27_FiltersHold ==
    UnescoReturned
    => /\ \A i \in DOMAIN fn_result.ret.l :
            unesco_matches(fn_result.ret.l[i], fn_call.region, fn_call.year)
       /\ fn_result.path = "first"
          => LET eligible(item) == unesco_matches(item, fn_call.region, fn_call.year)
             IN  fn_result.ret =
                    List(Take(SelectSeq(fn_call.first_net.data.l, eligible), fn_call.limit))

\* C25: every request of an adapter and of get_unesco_ich_data carries a
\* timeout, and a provider that never answers does not keep a call from
\* returning: the adapters and the generators return None after their
\* timeout, and the heritage calls return as well.
C25_EveryRequestBounded ==
    /\ (Returned /\ fn_call.fn \in AdapterFns)
       => /\ fn_result.req.d["timeout"] > 0
          /\ fn_call.net.kind = "timeout" => fn_result.ret = None
    /\ (Generated /\ fn_call.gen_net = "timeout") => fn_result.ret = None
    /\ (Returned /\ fn_call.fn \in {"get_unesco_ich_data", "early_get_unesco_ich_data"})
       => /\ \A i \in DOMAIN fn_result.requests : fn_result.requests[i].timeout # None
          /\ fn_result.returned

----------------------------------------------------------------------------
(* Properties of the prompts (SpecCalls).                                  *)

\* json.dumps of a record: a text that the record determines
json_dumps(v) == [t |-> "str", json |-> v]

\* the prompt of generate_director_explanation: the template of the role,
\* formatted with the serialized record
director_prompt(animal_data, selected_role) ==
    IF selected_role \notin DIRECTOR_PROMPT_TEMPLATES THEN Raise("KeyError")
    ELSE FString(<<DIRECTOR_PROMPT_TEMPLATE(selected_role), json_dumps(animal_data)>>)

\* no item of the list holds a null: its keys are present with a value, or
\* absent
ItemsWithoutNull(ich_data) ==
    \A i \in DOMAIN ich_data.l :
        \A k \in DOMAIN ich_data.l[i].d : ich_data.l[i].d[k] # None

\* C23: building the prompt never raises: the template of every role,
\* formatted with any record, is a text holding the serialized record; and
\* generate_global_ich_explanation, first and final version, builds its
\* data summary and prompt for every list of items, whichever of title,
\* country, year and description are absent.
C23_PromptNeverRaises ==
    /\ (Generated /\ fn_call.fn = "generate_director_explanation")
       => LET prompt == director_prompt(fn_call.animal_data, fn_call.selected_role)
          IN  /\ prompt.t = "str"
              /\ prompt.parts[2] = json_dumps(fn_call.animal_data)
    /\ ( /\ Returned
         /\ \/ fn_call.fn = "early_generate_global_ich_explanation"
            \/ fn_call.fn = "generate_global_ich_explanation" /\ Truthy(fn_call.client)
         /\ ItemsWithoutNull(fn_call.ich_data) )
       => /\ fn_result.prompt.t = "str"
          /\ fn_result.ret.t = "raise" => fn_result.called

----------------------------------------------------------------------------
(* The page runs of the final heritage app: one action per run.  A run     *)
(* has at most one pressed button.                                         *)

\* init_openai_client: the key of the environment or the secrets, else the
\* one typed into the sidebar; None without a key
init_openai_client(configured_key, typed_key) ==
    LET api_key == IF configured_key # "" THEN configured_key ELSE typed_key
    IN  IF api_key # "" THEN Str("client") ELSE None

HeritageFrame ==
    /\ UNCHANGED appVars
    /\ UNCHANGED mergeVars
    /\ UNCHANGED callVars

\* a run with no button pressed: the page is drawn
HeritageLoad ==
    /\ \E configured_key \in ApiKeys, typed_key \in ApiKeys :
        ich_run' = IchRun("load", init_openai_client(configured_key, typed_key),
                          None, NoGlobal, "")
    /\ UNCHANGED ich_session
    /\ HeritageFrame

\* the fetch button: what get_unesco_ich_data returns is stored in the
\* session state and displayed; a call that does not return stores nothing
HeritageFetch ==
    /\ ich_run.action # "start"
    /\ \E configured_key \in ApiKeys, typed_key \in ApiKeys,
          region \in HeritageRegions, limit \in HeritageLimits, year \in HeritageYears,
          first_net \in HeritageAnswers :
        \E alt_net \in AltAnswersFor(first_net) :
            LET fetch == get_unesco_ich_data(region, limit, year, first_net, alt_net)
            IN  /\ ich_run' = IchRun("fetch", init_openai_client(configured_key, typed_key),
                                     fetch, NoGlobal, "")
                /\ ich_session' = IF fetch.returned THEN [ich_data |-> fetch.ret]
                                  ELSE ich_session
    /\ HeritageFrame

\* the explanation button: with data in the session state the stored list
\* goes to generate_global_ich_explanation
HeritageExplain ==
    /\ ich_run.action # "start"
    /\ \E configured_key \in ApiKeys, typed_key \in ApiKeys, gen_net \in GenOutcomes :
        LET client == init_openai_client(configured_key, typed_key)
        IN  ich_run' =
                IF "ich_data" \in DOMAIN ich_session
                THEN LET gen == generate_global_ich_explanation(
                                    ich_session["ich_data"], client, gen_net)
                     IN  IchRun("explain", client, None, gen,
                                IF gen.called THEN gen_net ELSE "")
                ELSE IchRun("explain", client, None, NoGlobal, "")
    /\ UNCHANGED ich_session
    /\ HeritageFrame

HeritageNext == HeritageLoad \/ HeritageFetch \/ HeritageExplain

\* the session starts as Init describes it: nothing stored, no run made
SpecHeritage == Init /\ [][HeritageNext]_vars

----------------------------------------------------------------------------
(* Properties of the heritage app's page runs (SpecHeritage).              *)

\* C30: the generation call is made only in a run of the explanation
\* button in which the session state already holds heritage data and a
\* client was initialised; a call that fails returns the fallback text that
\* holds the data summary; and without a client
\* generate_global_ich_explanation returns "" without calling the provider.
C30_GenerationOnlyWithDataAndClient ==
    [][ /\ ich_run'.gen.called
           => /\ ich_run'.action = "explain"
              /\ "ich_data" \in DOMAIN ich_session
              /\ ich_session' = ich_session
              /\ Truthy(ich_run'.client)
        /\ (ich_run'.gen.called /\ ich_run'.gen_net \notin {"ok", "blank"})
           => ich_run'.gen.ret =
                FString(<<"introduction", data_summary(ich_session["ich_data"]),
                          "closing question">>)
        /\ ( /\ ich_run'.action = "explain"
             /\ "ich_data" \in DOMAIN ich_session
             /\ ~Truthy(ich_run'.client) )
           => (~ich_run'.gen.called /\ ich_run'.gen.ret = Str("")) ]_vars

C30_Witness ==
    /\ ich_run.action = "explain"
    /\ ich_run.gen.called
    /\ ich_run.gen_net = "rate"
    /\ ich_session["ich_data"] = MOCK_ICH_DATA
    /\ ich_run.gen.ret.t = "str"
    /\ ich_run.gen.ret # Str("generated")

============================================================================
